---- MODULE Spec2Model ----
(***************************************************************************)
(* The css selector builder of task/08-objects-tasks.js: the classes       *)
(* Selector and CombinedSelector and the facade cssSelectorBuilder; and,   *)
(* in the second half, the generators of task/07-yield-tasks.js.           *)
(*                                                                         *)
(* Objects live in `heap`; a reference is an index into it.  JavaScript    *)
(* strings are TLA+ strings, concatenated with \o.  Every call of a method *)
(* is one step; `last` records the call (its name, receiver and arguments) *)
(* and its outcome (the error thrown, the reference or string returned).   *)
(***************************************************************************)
EXTENDS Integers, Sequences, FiniteSets, TLC

VARIABLES heap, appended, last, merge, depth, breadth

\* the selector builder
selectors == <<heap, appended, last>>

\* the generator objects of mergeSortedSequences, depthTraversalTree, breadthTraversalTree
generators == <<merge, depth, breadth>>

vars == <<heap, appended, last, merge, depth, breadth>>

(* ------------------------------ bounds -------------------------------- *)

\* Spec: the parts appended to the selector of the call chain
MaxParts == 4

\* SpecCombine: the objects allocated
MaxObjects == 3

\* SpecCombine: the parts appended, over all the selectors of the heap
MaxLeafParts == 2

\* SpecShared: the Selectors allocated
MaxSelectors == 2

\* SpecShared: the parts appended, over all the selectors of the heap
MaxSharedParts == 3

\* SpecMerge: the length of the written-out part of a source
MaxLen == 2

\* SpecMerge: the numbers of the written-out part of a source are 1..MaxValue
MaxValue == 3

\* SpecMerge: the values the consumer takes from a merge of an endless source
MaxYield == 4

\* the values handed to the part methods
Values == {"a", "b"}

\* SpecCombine: the values handed to the part methods
LeafValues == {"a"}

\* the combinator strings handed to combine; "%" is no css combinator
Combinators == {" ", "+", "~", "%"}

(* --------------------------- generic helpers --------------------------- *)

\* Array.prototype.indexOf: zero-based, -1 when absent
indexOf(s, x) ==
    IF \E i \in 1..Len(s) : s[i] = x
    THEN (CHOOSE i \in 1..Len(s) : s[i] = x /\ \A j \in 1..(i - 1) : s[j] # x) - 1
    ELSE -1

\* Array.prototype.includes
includes(s, x) == \E i \in 1..Len(s) : s[i] = x

\* Array.prototype.join('')
RECURSIVE join(_)
join(s) == IF s = <<>> THEN "" ELSE Head(s) \o join(Tail(s))

(* ------------------------------ Selector ------------------------------ *)

NoError == "none"

OrderError ==
    "Selector parts should be arranged in the following order: element, id, class, attribute, pseudo-class, pseudo-element"

DuplicateError ==
    "Element, id and pseudo-element should not occur more then one time inside the selector"

\* the constructor of Selector
NewSelector ==
    [cls   |-> "Selector",
     parts |-> [element |-> "", id |-> "", class |-> <<>>, attr |-> <<>>,
                pseudoClass |-> <<>>, pseudoElement |-> ""],
     order |-> <<>>]

\* the local constant `order` of checkOrder
order == <<"element", "id", "class", "attr", "pseudoClass", "pseudoElement">>

\* the array literal of the cardinality test of checkOrder
single == <<"element", "id", "pseudoElement">>

\* checkOrder pushing the part before its tests
checkOrder_pushFirst(self, part) ==
    LET partIndex == indexOf(order, part)
        lastIndex == IF Len(self.order) # 0
                     THEN indexOf(order, self.order[Len(self.order)])
                     ELSE -1
        pushed    == [self EXCEPT !.order = Append(@, part)]
    IN  IF partIndex < lastIndex
        THEN [thrown |-> OrderError, self |-> pushed]
        ELSE IF includes(single, part) /\ includes(self.order, part)
        THEN [thrown |-> DuplicateError, self |-> pushed]
        ELSE [thrown |-> NoError, self |-> pushed]

\* checkOrder without the rank test
checkOrder_noRank(self, part) ==
    IF includes(single, part) /\ includes(self.order, part)
    THEN [thrown |-> DuplicateError, self |-> self]
    ELSE [thrown |-> NoError, self |-> [self EXCEPT !.order = Append(@, part)]]

\* checkOrder without the cardinality test
checkOrder_noCardinality(self, part) ==
    LET partIndex == indexOf(order, part)
        lastIndex == IF Len(self.order) # 0
                     THEN indexOf(order, self.order[Len(self.order)])
                     ELSE -1
    IN  IF partIndex < lastIndex
        THEN [thrown |-> OrderError, self |-> self]
        ELSE [thrown |-> NoError, self |-> [self EXCEPT !.order = Append(@, part)]]

\* checkOrder refusing a part of the rank of the last one: <= for <
checkOrder_lessOrEqual(self, part) ==
    LET partIndex == indexOf(order, part)
        lastIndex == IF Len(self.order) # 0
                     THEN indexOf(order, self.order[Len(self.order)])
                     ELSE -1
    IN  IF partIndex <= lastIndex
        THEN [thrown |-> OrderError, self |-> self]
        ELSE IF includes(single, part) /\ includes(self.order, part)
        THEN [thrown |-> DuplicateError, self |-> self]
        ELSE [thrown |-> NoError, self |-> [self EXCEPT !.order = Append(@, part)]]

\* checkOrder with its two tests in the other order
checkOrder_cardinalityFirst(self, part) ==
    LET partIndex == indexOf(order, part)
        lastIndex == IF Len(self.order) # 0
                     THEN indexOf(order, self.order[Len(self.order)])
                     ELSE -1
    IN  IF includes(single, part) /\ includes(self.order, part)
        THEN [thrown |-> DuplicateError, self |-> self]
        ELSE IF partIndex < lastIndex
        THEN [thrown |-> OrderError, self |-> self]
        ELSE [thrown |-> NoError, self |-> [self EXCEPT !.order = Append(@, part)]]

\* Selector.checkOrder: the error it throws (NoError when it returns) and the
\* receiver as the call leaves it
checkOrder(self, part) ==
    LET partIndex == indexOf(order, part)
        lastIndex == IF Len(self.order) # 0
                     THEN indexOf(order, self.order[Len(self.order)])
                     ELSE -1
    IN  IF partIndex < lastIndex
        THEN [thrown |-> OrderError, self |-> self]
        ELSE IF includes(single, part) /\ includes(self.order, part)
        THEN [thrown |-> DuplicateError, self |-> self]
        ELSE [thrown |-> NoError, self |-> [self EXCEPT !.order = Append(@, part)]]

\* Selector.element
element(self, value) ==
    LET c == checkOrder(self, "element")
    IN  IF c.thrown # NoError THEN c
        ELSE [c EXCEPT !.self.parts.element = value]

\* id storing the part before checkOrder runs
id_storeFirst(self, value) ==
    checkOrder([self EXCEPT !.parts.id = "#" \o value], "id")

\* Selector.id
id(self, value) ==
    LET c == checkOrder(self, "id")
    IN  IF c.thrown # NoError THEN c
        ELSE [c EXCEPT !.self.parts.id = "#" \o value]

\* class putting the part in front of its group
class_unshift(self, value) ==
    LET c == checkOrder(self, "class")
    IN  IF c.thrown # NoError THEN c
        ELSE [c EXCEPT !.self.parts.class = <<"." \o value>> \o @]

\* Selector.class
class(self, value) ==
    LET c == checkOrder(self, "class")
    IN  IF c.thrown # NoError THEN c
        ELSE [c EXCEPT !.self.parts.class = Append(@, "." \o value)]

\* Selector.attr
attr(self, value) ==
    LET c == checkOrder(self, "attr")
    IN  IF c.thrown # NoError THEN c
        ELSE [c EXCEPT !.self.parts.attr = Append(@, "[" \o value \o "]")]

\* Selector.pseudoClass
pseudoClass(self, value) ==
    LET c == checkOrder(self, "pseudoClass")
    IN  IF c.thrown # NoError THEN c
        ELSE [c EXCEPT !.self.parts.pseudoClass = Append(@, ":" \o value)]

\* Selector.pseudoElement
pseudoElement(self, value) ==
    LET c == checkOrder(self, "pseudoElement")
    IN  IF c.thrown # NoError THEN c
        ELSE [c EXCEPT !.self.parts.pseudoElement = "::" \o value]

\* stringify rendering the classes after the attributes
Selector_stringify_swapped(self) ==
    self.parts.element \o
    self.parts.id \o
    join(self.parts.attr) \o
    join(self.parts.class) \o
    join(self.parts.pseudoClass) \o
    self.parts.pseudoElement

\* Selector.stringify
Selector_stringify(self) ==
    self.parts.element \o
    self.parts.id \o
    join(self.parts.class) \o
    join(self.parts.attr) \o
    join(self.parts.pseudoClass) \o
    self.parts.pseudoElement

(* -------------------------- CombinedSelector -------------------------- *)

\* the constructor storing the new object itself as its right operand
NewCombinedSelector_selfOperand(selector1, combinator, selector2) ==
    [cls        |-> "CombinedSelector",
     selector1  |-> selector1,
     combinator |-> combinator,
     selector2  |-> Len(heap) + 1]

\* the constructor of CombinedSelector
NewCombinedSelector(selector1, combinator, selector2) ==
    [cls        |-> "CombinedSelector",
     selector1  |-> selector1,
     combinator |-> combinator,
     selector2  |-> selector2]

\* the template with the descendant combinator rendered as one space
CombinedSelector_template_trimmed(s1, combinator, s2) ==
    IF combinator = " " THEN s1 \o " " \o s2
    ELSE s1 \o " " \o combinator \o " " \o s2

\* the template literal `${...} ${this.combinator} ${...}`
CombinedSelector_template(s1, combinator, s2) ==
    s1 \o " " \o combinator \o " " \o s2

\* stringify putting a combined operand in parentheses
RECURSIVE stringify_grouped(_, _)
stringify_grouped(h, ref) ==
    LET operand(r) == IF h[r].cls = "Selector"
                      THEN stringify_grouped(h, r)
                      ELSE "(" \o stringify_grouped(h, r) \o ")"
    IN  IF h[ref].cls = "Selector"
        THEN Selector_stringify(h[ref])
        ELSE CombinedSelector_template(operand(h[ref].selector1),
                                       h[ref].combinator,
                                       operand(h[ref].selector2))

\* obj.stringify() for the object a reference of heap h points to: the dispatch on
\* the class of the object, and CombinedSelector.stringify with its recursive calls
RECURSIVE stringify(_, _)
stringify(h, ref) ==
    IF h[ref].cls = "Selector"
    THEN Selector_stringify(h[ref])
    ELSE CombinedSelector_template(stringify(h, h[ref].selector1),
                                   h[ref].combinator,
                                   stringify(h, h[ref].selector2))

(* ------------------------------ the state ------------------------------ *)

Refs(h) == 1..Len(h)

\* the number of parts the selectors of heap h hold in their histories
RECURSIVE TotalParts(_)
TotalParts(h) ==
    IF h = <<>> THEN 0
    ELSE (IF Head(h).cls = "Selector" THEN Len(Head(h).order) ELSE 0) + TotalParts(Tail(h))

\* the record of a call: the method, the receiver (0: cssSelectorBuilder), the
\* arguments, the error thrown, the reference returned (0: none) and the string returned
Call(op, on, value, selector1, combinator, selector2, thrown, ret, str) ==
    [op |-> op, on |-> on, value |-> value, selector1 |-> selector1,
     combinator |-> combinator, selector2 |-> selector2,
     thrown |-> thrown, ret |-> ret, str |-> str]

PartCall(op, on, value, thrown, ret) == Call(op, on, value, 0, "", 0, thrown, ret, "")

\* no object yet, no call yet; appended[ref] is the log of what built heap[ref]: the
\* parts a Selector took, in call order, or the arguments a CombinedSelector was built from
NoCall == Call("none", 0, "", 0, "", 0, NoError, 0, "")

\* a generator function that was not called
NotCalled == [pc |-> "none"]

Init ==
    /\ heap = <<>>
    /\ appended = <<>>
    /\ last = NoCall
    /\ merge = NotCalled
    /\ depth = NotCalled
    /\ breadth = NotCalled

(* ------------------------- cssSelectorBuilder -------------------------- *)

\* `return new Selector().m(value)`: r is what m did to the new Selector
Build(op, value, r) ==
    /\ IF r.thrown = NoError
       THEN /\ heap' = Append(heap, r.self)
            /\ appended' = Append(appended, <<[kind |-> op, value |-> value]>>)
            /\ last' = PartCall(op, 0, value, NoError, Len(heap) + 1)
       ELSE /\ UNCHANGED <<heap, appended>>
            /\ last' = PartCall(op, 0, value, r.thrown, 0)
    /\ UNCHANGED generators

builder_element(value) == Build("element", value, element(NewSelector, value))

builder_id(value) == Build("id", value, id(NewSelector, value))

builder_class(value) == Build("class", value, class(NewSelector, value))

builder_attr(value) == Build("attr", value, attr(NewSelector, value))

builder_pseudoClass(value) == Build("pseudoClass", value, pseudoClass(NewSelector, value))

builder_pseudoElement(value) ==
    Build("pseudoElement", value, pseudoElement(NewSelector, value))

\* cssSelectorBuilder.combine
builder_combine(selector1, combinator, selector2) ==
    /\ heap' = Append(heap, NewCombinedSelector(selector1, combinator, selector2))
    /\ appended' = Append(appended, <<[selector1 |-> selector1, combinator |-> combinator,
                                       selector2 |-> selector2]>>)
    /\ last' = Call("combine", 0, "", selector1, combinator, selector2,
                    NoError, Len(heap) + 1, "")
    /\ UNCHANGED generators

(* ---------------------- calls on a Selector object --------------------- *)

\* the part methods writing to one `parts` object that all the Selectors share
Invoke_sharedParts(op, ref, value, r) ==
    /\ heap[ref].cls = "Selector"
    /\ heap' = [i \in DOMAIN heap |->
                  IF i = ref THEN r.self
                  ELSE IF heap[i].cls = "Selector"
                  THEN [heap[i] EXCEPT !.parts = r.self.parts]
                  ELSE heap[i]]
    /\ appended' = IF r.thrown = NoError
                   THEN [appended EXCEPT ![ref] = Append(@, [kind |-> op, value |-> value])]
                   ELSE appended
    /\ last' = PartCall(op, ref, value, r.thrown, IF r.thrown = NoError THEN ref ELSE 0)
    /\ UNCHANGED generators

\* `ref.m(value)`: r is what m did to the Selector ref points to; the method mutates
\* the receiver in place and returns it, or throws
Invoke(op, ref, value, r) ==
    /\ heap[ref].cls = "Selector"
    /\ heap' = [heap EXCEPT ![ref] = r.self]
    /\ appended' = IF r.thrown = NoError
                   THEN [appended EXCEPT ![ref] = Append(@, [kind |-> op, value |-> value])]
                   ELSE appended
    /\ last' = PartCall(op, ref, value, r.thrown, IF r.thrown = NoError THEN ref ELSE 0)
    /\ UNCHANGED generators

call_element(ref, value) == Invoke("element", ref, value, element(heap[ref], value))

call_id(ref, value) == Invoke("id", ref, value, id(heap[ref], value))

call_class(ref, value) == Invoke("class", ref, value, class(heap[ref], value))

call_attr(ref, value) == Invoke("attr", ref, value, attr(heap[ref], value))

call_pseudoClass(ref, value) ==
    Invoke("pseudoClass", ref, value, pseudoClass(heap[ref], value))

call_pseudoElement(ref, value) ==
    Invoke("pseudoElement", ref, value, pseudoElement(heap[ref], value))

\* stringify emptying the class array of the Selector it renders
call_stringify_draining(ref) ==
    /\ last' = Call("stringify", ref, "", 0, "", 0, NoError, 0, stringify(heap, ref))
    /\ heap' = [heap EXCEPT ![ref] = IF @.cls = "Selector"
                                      THEN [@ EXCEPT !.parts.class = <<>>]
                                      ELSE @]
    /\ UNCHANGED appended
    /\ UNCHANGED generators

\* `ref.stringify()`, on an object of either class
call_stringify(ref) ==
    /\ last' = Call("stringify", ref, "", 0, "", 0, NoError, 0, stringify(heap, ref))
    /\ UNCHANGED <<heap, appended>>
    /\ UNCHANGED generators

(* --------------------------- specifications ---------------------------- *)

\* Spec: one call chain, builder.m(v).m(v)...: a single Selector, every part method
\* and stringify called on it in any order
ChainBound(h) == Len(h) <= 1 /\ TotalParts(h) <= MaxParts

Next ==
    \/ \E value \in Values : builder_element(value) /\ ChainBound(heap')
    \/ \E value \in Values : builder_id(value) /\ ChainBound(heap')
    \/ \E value \in Values : builder_class(value) /\ ChainBound(heap')
    \/ \E value \in Values : builder_attr(value) /\ ChainBound(heap')
    \/ \E value \in Values : builder_pseudoClass(value) /\ ChainBound(heap')
    \/ \E value \in Values : builder_pseudoElement(value) /\ ChainBound(heap')
    \/ \E ref \in Refs(heap), value \in Values : call_element(ref, value) /\ ChainBound(heap')
    \/ \E ref \in Refs(heap), value \in Values : call_id(ref, value) /\ ChainBound(heap')
    \/ \E ref \in Refs(heap), value \in Values : call_class(ref, value) /\ ChainBound(heap')
    \/ \E ref \in Refs(heap), value \in Values : call_attr(ref, value) /\ ChainBound(heap')
    \/ \E ref \in Refs(heap), value \in Values :
          call_pseudoClass(ref, value) /\ ChainBound(heap')
    \/ \E ref \in Refs(heap), value \in Values :
          call_pseudoElement(ref, value) /\ ChainBound(heap')
    \/ \E ref \in Refs(heap) : call_stringify(ref)

Spec == Init /\ [][Next]_vars

\* SpecCombine: several objects; selectors started from an element or a class, grown
\* by id and class, combined with each other and with combined selectors
CombineBound(h) == Len(h) <= MaxObjects /\ TotalParts(h) <= MaxLeafParts

NextCombine ==
    \/ \E value \in LeafValues : builder_element(value) /\ CombineBound(heap')
    \/ \E value \in LeafValues : builder_class(value) /\ CombineBound(heap')
    \/ \E selector1 \in Refs(heap), selector2 \in Refs(heap), combinator \in Combinators :
          builder_combine(selector1, combinator, selector2) /\ CombineBound(heap')
    \/ \E ref \in Refs(heap), value \in LeafValues : call_id(ref, value) /\ CombineBound(heap')
    \/ \E ref \in Refs(heap), value \in LeafValues : call_class(ref, value) /\ CombineBound(heap')
    \/ \E ref \in Refs(heap) : call_stringify(ref)

SpecCombine == Init /\ [][NextCombine]_vars

\* SpecShared: several call chains side by side: Selectors started by every method of
\* the builder, every part method and stringify called on each in any interleaving
SharedBound(h) == Len(h) <= MaxSelectors /\ TotalParts(h) <= MaxSharedParts

NextShared ==
    \/ \E value \in LeafValues : builder_element(value) /\ SharedBound(heap')
    \/ \E value \in LeafValues : builder_id(value) /\ SharedBound(heap')
    \/ \E value \in LeafValues : builder_class(value) /\ SharedBound(heap')
    \/ \E value \in LeafValues : builder_attr(value) /\ SharedBound(heap')
    \/ \E value \in LeafValues : builder_pseudoClass(value) /\ SharedBound(heap')
    \/ \E value \in LeafValues : builder_pseudoElement(value) /\ SharedBound(heap')
    \/ \E ref \in Refs(heap), value \in LeafValues :
          call_element(ref, value) /\ SharedBound(heap')
    \/ \E ref \in Refs(heap), value \in LeafValues : call_id(ref, value) /\ SharedBound(heap')
    \/ \E ref \in Refs(heap), value \in LeafValues :
          call_class(ref, value) /\ SharedBound(heap')
    \/ \E ref \in Refs(heap), value \in LeafValues :
          call_attr(ref, value) /\ SharedBound(heap')
    \/ \E ref \in Refs(heap), value \in LeafValues :
          call_pseudoClass(ref, value) /\ SharedBound(heap')
    \/ \E ref \in Refs(heap), value \in LeafValues :
          call_pseudoElement(ref, value) /\ SharedBound(heap')
    \/ \E ref \in Refs(heap) : call_stringify(ref)

SpecShared == Init /\ [][NextShared]_vars

(* ------------------- the vocabulary of the properties ------------------ *)

\* the canonical rank of a part kind: element < id < class < attr < pseudoClass < pseudoElement
Rank(kind) ==
    CASE kind = "element"       -> 1
      [] kind = "id"            -> 2
      [] kind = "class"         -> 3
      [] kind = "attr"          -> 4
      [] kind = "pseudoClass"   -> 5
      [] kind = "pseudoElement" -> 6

Kinds == {"element", "id", "class", "attr", "pseudoClass", "pseudoElement"}

SingleKinds == {"element", "id", "pseudoElement"}

RepeatableKinds == {"class", "attr", "pseudoClass"}

\* the highest rank of a history of kinds, 0 for the empty history
HighestRank(history) ==
    IF history = <<>> THEN 0
    ELSE CHOOSE n \in {Rank(history[i]) : i \in 1..Len(history)} :
            \A i \in 1..Len(history) : Rank(history[i]) <= n

\* the rank of the most recent part of a history, 0 for the empty history
LastRank(history) == IF history = <<>> THEN 0 ELSE Rank(history[Len(history)])

\* a part as stringify shows it
Shown(kind, value) ==
    CASE kind = "element"       -> value
      [] kind = "id"            -> "#" \o value
      [] kind = "class"         -> "." \o value
      [] kind = "attr"          -> "[" \o value \o "]"
      [] kind = "pseudoClass"   -> ":" \o value
      [] kind = "pseudoElement" -> "::" \o value

\* the parts of one kind of a log of appends, shown, in log order, with no separators
RECURSIVE Group(_, _)
Group(log, kind) ==
    IF log = <<>> THEN ""
    ELSE (IF Head(log).kind = kind THEN Shown(kind, Head(log).value) ELSE "")
         \o Group(Tail(log), kind)

Canonical(log) ==
    Group(log, "element") \o Group(log, "id") \o Group(log, "class") \o
    Group(log, "attr") \o Group(log, "pseudoClass") \o Group(log, "pseudoElement")

IsSelector(h, ref) == ref \in Refs(h) /\ h[ref].cls = "Selector"

IsCombined(h, ref) == ref \in Refs(h) /\ h[ref].cls = "CombinedSelector"

\* the call c is a part method called on a Selector object (not on the builder)
IsAppend(c) == c.op \in Kinds /\ c.on # 0

\* the part method of a kind, applied to a Selector
Method(kind, self, value) ==
    CASE kind = "element"       -> element(self, value)
      [] kind = "id"            -> id(self, value)
      [] kind = "class"         -> class(self, value)
      [] kind = "attr"          -> attr(self, value)
      [] kind = "pseudoClass"   -> pseudoClass(self, value)
      [] kind = "pseudoElement" -> pseudoElement(self, value)

(* ------------------------------ Selector ------------------------------- *)

\* C1: whatever parts were appended to a Selector, stringify() returns the element
\* value, then "#" and the id, then "." and each class in append order, then each
\* attribute in brackets in append order, then ":" and each pseudo-class in append
\* order, then "::" and the pseudo-element, with no separators.
C1_StringifyCanonical ==
    /\ \A ref \in Refs(heap) :
          IsSelector(heap, ref) => stringify(heap, ref) = Canonical(appended[ref])
    /\ (last.op = "stringify" /\ IsSelector(heap, last.on))
          => last.str = Canonical(appended[last.on])

C1_Witness ==
    /\ last.op = "stringify"
    /\ last.str = "a.b.a[b]"
    /\ appended[last.on] = <<[kind |-> "element", value |-> "a"],
                             [kind |-> "class", value |-> "b"],
                             [kind |-> "class", value |-> "a"],
                             [kind |-> "attr", value |-> "b"]>>

\* C2: a part whose rank is below the highest rank appended so far is refused with
\* the order error; it is never accepted and never refused with the duplicate error.
C2_LowerRankIsOrderError ==
    [][(IsAppend(last') /\ Rank(last'.op) < HighestRank(heap[last'.on].order))
          => (last'.thrown = OrderError /\ last'.ret = 0)]_vars

C2_Witness ==
    /\ IsAppend(last)
    /\ last.op = "id"
    /\ last.thrown = OrderError
    /\ heap[last.on].order = <<"element", "class", "attr">>

\* C3, as claimed: element, id or pseudoElement appended to a Selector whose history
\* already holds that kind is refused with the duplicate error, wherever the earlier
\* occurrence sits in the history.
C3_DuplicateWhereverItSits ==
    [][(IsAppend(last') /\ last'.op \in SingleKinds
            /\ includes(heap[last'.on].order, last'.op))
          => last'.thrown = DuplicateError]_vars

\* C3, amended: such an append is always refused; with the duplicate error when no
\* part of a higher rank was appended since (the kind is the most recent part of the
\* history), and with the order error when one was.
C3_DuplicateOnlyWhenMostRecent ==
    [][(IsAppend(last') /\ last'.op \in SingleKinds
            /\ includes(heap[last'.on].order, last'.op))
          => /\ last'.ret = 0
             /\ last'.thrown = IF Rank(last'.op) = LastRank(heap[last'.on].order)
                               THEN DuplicateError
                               ELSE OrderError]_vars

C3_Witness ==
    /\ IsAppend(last)
    /\ last.op = "element"
    /\ last.thrown = OrderError
    /\ heap[last.on].order = <<"element", "id", "class">>

\* C4: a refused append leaves the parts and the history of the Selector as they
\* were: stringify() returns what it returned before, and every append that would
\* have been accepted before the call is still accepted after it.
C4_RefusedAppendChangesNothing ==
    [][(IsAppend(last') /\ last'.thrown # NoError)
          => /\ heap'[last'.on].parts = heap[last'.on].parts
             /\ heap'[last'.on].order = heap[last'.on].order
             /\ heap' = heap
             /\ stringify(heap', last'.on) = stringify(heap, last'.on)
             /\ \A kind \in Kinds, value \in Values :
                   Method(kind, heap[last'.on], value).thrown = NoError
                      => Method(kind, heap'[last'.on], value).thrown = NoError]_vars

C4_Witness ==
    /\ IsAppend(last)
    /\ last.op = "class"
    /\ last.thrown = OrderError
    /\ heap[last.on].order = <<"id", "attr">>
    /\ stringify(heap, last.on) = "#a[b]"

(* -------------------------- CombinedSelector --------------------------- *)

\* the arguments a CombinedSelector was built from
Args(ref) == appended[ref][1]

\* C5: for all selectors a and b of either class and every combinator string op, a
\* css combinator or not, combine(a, op, b) does not throw and its stringify() is
\* a.stringify() + " " + op + " " + b.stringify(); the descendant combinator " "
\* shows as three spaces.
C5_CombineRendersBothSides ==
    /\ last.op = "combine" => (last.thrown = NoError /\ IsCombined(heap, last.ret))
    /\ \A ref \in Refs(heap) :
          IsCombined(heap, ref)
             => stringify(heap, ref) =
                   stringify(heap, Args(ref).selector1) \o " " \o Args(ref).combinator
                      \o " " \o stringify(heap, Args(ref).selector2)

C5_Witness ==
    /\ last.op = "combine"
    /\ last.combinator = " "
    /\ IsCombined(heap, last.selector1)
    /\ Args(last.selector1).combinator = "%"
    /\ stringify(heap, last.ret) = "a % a   a"

\* the rendered leaves of a selector, left to right, with " op " between them
RECURSIVE InOrder(_, _)
InOrder(h, ref) ==
    IF h[ref].cls = "Selector"
    THEN <<Selector_stringify(h[ref])>>
    ELSE InOrder(h, h[ref].selector1) \o <<" " \o h[ref].combinator \o " ">>
            \o InOrder(h, h[ref].selector2)

\* C6: combined selectors nest with no grouping marks: stringify() of
\* combine(combine(a, op1, b), op2, c) is a.stringify() + " op1 " + b.stringify() +
\* " op2 " + c.stringify(), and every stringify() is the left-to-right sequence of the
\* rendered leaves joined by " op ".
C6_NestingIsFlat ==
    \A ref \in Refs(heap) :
       /\ stringify(heap, ref) = join(InOrder(heap, ref))
       /\ (IsCombined(heap, ref) /\ IsCombined(heap, Args(ref).selector1))
             => LET inner == Args(Args(ref).selector1)
                IN  stringify(heap, ref) =
                       stringify(heap, inner.selector1) \o " " \o inner.combinator \o " "
                          \o stringify(heap, inner.selector2) \o " "
                          \o Args(ref).combinator \o " "
                          \o stringify(heap, Args(ref).selector2)

C6_Witness ==
    /\ Len(heap) = 3
    /\ IsCombined(heap, 3)
    /\ IsCombined(heap, heap[3].selector1)
    /\ Args(heap[3].selector1).combinator = "+"
    /\ heap[3].combinator = "~"
    /\ stringify(heap, 3) = "a#a + a#a ~ a#a"

\* the selectors reachable from a reference through selector1 and selector2
RECURSIVE Reach(_, _)
Reach(h, ref) ==
    IF h[ref].cls = "Selector" THEN {ref}
    ELSE {ref} \cup Reach(h, h[ref].selector1) \cup Reach(h, h[ref].selector2)

\* ref is selector1 or selector2 of some CombinedSelector
IsOperand(h, ref) ==
    \E c \in Refs(h) : IsCombined(h, c) /\ ref \in {h[c].selector1, h[c].selector2}

\* C7, as claimed: once a Selector was handed to combine, or stringify() was called
\* on it, no later call changes it, and a CombinedSelector renders the same string at
\* every later point.
C7_FrozenOnceCombinedOrRendered ==
    [][/\ \A ref \in Refs(heap) :
             (IsOperand(heap, ref) \/ (last.op = "stringify" /\ last.on = ref))
                => heap'[ref] = heap[ref]
       /\ \A ref \in Refs(heap) :
             IsCombined(heap, ref) => stringify(heap', ref) = stringify(heap, ref)]_vars

\* C7, amended: a CombinedSelector keeps its selector1, combinator and selector2 for
\* ever, and stringify(), combine, the builder's part methods and refused appends
\* change no existing object; but a Selector stays open to appends after it was handed
\* to combine or rendered: an accepted append changes that Selector, and the only
\* renderings that can change with it are those of the selectors that reach it.
C7_OnlyAcceptedAppendsChangeRenderings ==
    [][/\ \A ref \in Refs(heap) : IsCombined(heap, ref) => heap'[ref] = heap[ref]
       /\ \A ref \in Refs(heap) :
             heap'[ref] # heap[ref]
                => (IsAppend(last') /\ last'.on = ref /\ last'.thrown = NoError)
       /\ \A ref \in Refs(heap) :
             stringify(heap', ref) # stringify(heap, ref)
                => (IsAppend(last') /\ last'.thrown = NoError
                        /\ last'.on \in Reach(heap, ref))]_vars

C7_Witness ==
    /\ IsAppend(last)
    /\ last.op = "class"
    /\ last.thrown = NoError
    /\ IsOperand(heap, last.on)
    /\ \E c \in Refs(heap) :
          /\ IsCombined(heap, c)
          /\ heap[c].selector1 = last.on
          /\ stringify(heap, c) = "a.a + a.a"

(* ------------------------- Selector, continued ------------------------- *)

\* C8: the history of every Selector is non-decreasing in rank and holds element, id
\* and pseudoElement at most once each; an accepted append is the last part of the
\* history and ranks no lower than the part before it.
C8_HistoryIsCanonical ==
    /\ \A ref \in Refs(heap) :
          IsSelector(heap, ref)
             => LET history == heap[ref].order
                IN  /\ \A i \in 1..Len(history), j \in 1..Len(history) :
                          i < j => Rank(history[i]) <= Rank(history[j])
                    /\ \A kind \in SingleKinds :
                          Cardinality({i \in 1..Len(history) : history[i] = kind}) <= 1
                    /\ LastRank(history) = HighestRank(history)
    /\ (IsAppend(last) /\ last.thrown = NoError)
          => LET history == heap[last.on].order
             IN  /\ history # <<>>
                 /\ history[Len(history)] = last.op
                 /\ Rank(last.op) >= HighestRank(SubSeq(history, 1, Len(history) - 1))

C8_Witness ==
    /\ IsAppend(last)
    /\ last.thrown = NoError
    /\ heap[last.on].order = <<"id", "class", "class", "pseudoElement">>

\* C9: class, attr or pseudoClass is accepted whenever its rank is that of the most
\* recent part or higher, any number of times in a row, and the append adds exactly
\* its one part, shown, at the end of the group of its kind and of that group's
\* stretch in stringify().
C9_RepeatableAppendsExtendTheirGroup ==
    [][(IsAppend(last') /\ last'.op \in RepeatableKinds
            /\ Rank(last'.op) >= LastRank(heap[last'.on].order))
          => LET before == heap[last'.on]
                 after  == heap'[last'.on]
                 kind   == last'.op
                 part   == Shown(kind, last'.value)
             IN  /\ last'.thrown = NoError
                 /\ last'.ret = last'.on
                 /\ after.parts[kind] = Append(before.parts[kind], part)
                 /\ \A other \in Kinds \ {kind} : after.parts[other] = before.parts[other]
                 /\ Group(appended'[last'.on], kind)
                       = Group(appended[last'.on], kind) \o part
                 /\ Canonical(appended'[last'.on]) = Selector_stringify(after)]_vars

C9_Witness ==
    /\ IsAppend(last)
    /\ last.thrown = NoError
    /\ heap[last.on].order = <<"class", "class", "class", "attr">>
    /\ stringify(heap, last.on) = ".b.a.a[b]"

\* C10: a second pseudoElement on a Selector that holds one is refused with the
\* duplicate error, not the order error, whatever was appended before the first.
C10_SecondPseudoElementIsDuplicate ==
    [][(IsAppend(last') /\ last'.op = "pseudoElement"
            /\ includes(heap[last'.on].order, "pseudoElement"))
          => (last'.thrown = DuplicateError /\ last'.ret = 0 /\ heap' = heap)]_vars

C10_Witness ==
    /\ IsAppend(last)
    /\ last.op = "pseudoElement"
    /\ last.thrown = DuplicateError
    /\ heap[last.on].order = <<"element", "pseudoClass", "pseudoElement">>

(* ----------------------------- stringify ------------------------------- *)

\* C11: stringify() on a Selector or a CombinedSelector changes no object (parts,
\* history, selector1, combinator, selector2), and the string it returned is the
\* string a second stringify() on the same object returns right after it.
C11_StringifyChangesNothing ==
    [][last'.op = "stringify"
          => /\ heap' = heap
             /\ appended' = appended
             /\ last'.thrown = NoError
             /\ last'.str = stringify(heap, last'.on)
             /\ last'.str = stringify(heap', last'.on)]_vars

C11_Witness ==
    /\ last.op = "stringify"
    /\ IsCombined(heap, last.on)
    /\ IsSelector(heap, heap[last.on].selector1)
    /\ heap[heap[last.on].selector1].order = <<"element", "class">>
    /\ last.str = "a.a ~ a.a"

(* ------------------------- cssSelectorBuilder -------------------------- *)

\* the call c is a part method called on cssSelectorBuilder
IsStart(c) == c.op \in Kinds /\ c.on = 0

\* C12: every part method of the builder returns a newly allocated Selector that
\* holds the one part and nothing else, and never throws; an append on one Selector,
\* accepted or refused, and a start of another leave the parts, the history and the
\* rendered string of every other Selector as they were.
C12_SelectorsAreIndependent ==
    [][/\ IsStart(last')
             => LET new  == last'.ret
                    kind == last'.op
                    part == Shown(kind, last'.value)
                IN  /\ last'.thrown = NoError
                    /\ new = Len(heap) + 1
                    /\ Len(heap') = Len(heap) + 1
                    /\ heap'[new].cls = "Selector"
                    /\ heap'[new].order = <<kind>>
                    /\ heap'[new].parts =
                          [NewSelector.parts EXCEPT
                              ![kind] = IF kind \in RepeatableKinds THEN <<part>> ELSE part]
                    /\ stringify(heap', new) = part
                    /\ \A ref \in Refs(heap) :
                          /\ heap'[ref] = heap[ref]
                          /\ stringify(heap', ref) = stringify(heap, ref)
       /\ IsAppend(last')
             => \A ref \in Refs(heap) \ {last'.on} :
                   /\ heap'[ref].parts = heap[ref].parts
                   /\ heap'[ref].order = heap[ref].order
                   /\ appended'[ref] = appended[ref]
                   /\ stringify(heap', ref) = stringify(heap, ref)]_vars

C12_Witness ==
    /\ Len(heap) = 2
    /\ IsAppend(last)
    /\ last.on = 2
    /\ last.thrown = NoError
    /\ stringify(heap, 1) = "#a"
    /\ stringify(heap, 2) = "[a]:a"

(* ------------------- the graph of selector1 / selector2 ---------------- *)

\* the operands of an object: none for a Selector
Operands(h, ref) ==
    IF h[ref].cls = "CombinedSelector" THEN {h[ref].selector1, h[ref].selector2} ELSE {}

\* the objects reached from the set S in at most n steps along operands, S included
RECURSIVE Within(_, _, _)
Within(h, S, n) ==
    IF n = 0 THEN S
    ELSE Within(h, S \cup UNION {Operands(h, r) : r \in S}, n - 1)

\* the objects reached from ref in one step or more
Below(h, ref) == Within(h, Operands(h, ref), Len(h))

\* C13: the graph of selector1 / selector2 has no cycle: no object is reached from
\* itself, every operand was allocated before the CombinedSelector that holds it, and
\* so the recursion of stringify() ends, at a Selector, on every path.
C13_NoCycle ==
    \A ref \in Refs(heap) :
       /\ Operands(heap, ref) \subseteq Refs(heap)
       /\ ref \notin Below(heap, ref)
       /\ \A r \in Operands(heap, ref) : r < ref
       /\ \E r \in Below(heap, ref) \cup {ref} : IsSelector(heap, r)

C13_Witness ==
    /\ Len(heap) = 3
    /\ IsSelector(heap, 1)
    /\ IsCombined(heap, 2)
    /\ IsCombined(heap, 3)
    /\ heap[3].selector1 = 2
    /\ heap[3].selector2 = 2
    /\ Below(heap, 3) = {1, 2}

\* the operand slots an object sits in: the pairs of a CombinedSelector and a side
Slots(h, ref) ==
    {<<c, side>> \in Refs(h) \X {"selector1", "selector2"} :
        IsCombined(h, c) /\ h[c][side] = ref}

\* C14, as claimed: every object sits in at most one operand slot over all the
\* CombinedSelectors: it is not both operands of one, nor an operand of two.
C14_OperandsAreExclusive ==
    \A ref \in Refs(heap) : Cardinality(Slots(heap, ref)) <= 1

\* the number of Selector leaves and of CombinedSelector nodes met when the object is
\* unfolded along its operands, an object met twice counted twice
RECURSIVE Leaves(_, _)
Leaves(h, ref) ==
    IF h[ref].cls = "Selector" THEN 1
    ELSE Leaves(h, h[ref].selector1) + Leaves(h, h[ref].selector2)

RECURSIVE Nodes(_, _)
Nodes(h, ref) ==
    IF h[ref].cls = "Selector" THEN 0
    ELSE 1 + Nodes(h, h[ref].selector1) + Nodes(h, h[ref].selector2)

\* C14, amended: a CombinedSelector holds references, not owned copies: each of its
\* two operands is an object allocated before it, of either class, and one object may
\* sit in any number of slots.  What combine builds is an acyclic graph that unfolds
\* into a binary tree with Selector leaves, as stringify() walks it: one leaf more than
\* it has CombinedSelector nodes, and one rendered leaf per leaf.
C14_OperandsAreSharedReferences ==
    \A ref \in Refs(heap) :
       IsCombined(heap, ref)
          => /\ \A r \in Operands(heap, ref) : r \in Refs(heap) /\ r < ref
             /\ heap[ref].selector1 = Args(ref).selector1
             /\ heap[ref].selector2 = Args(ref).selector2
             /\ Leaves(heap, ref) = Nodes(heap, ref) + 1
             /\ Len(InOrder(heap, ref)) = Leaves(heap, ref) + Nodes(heap, ref)

C14_Witness ==
    /\ Len(heap) = 3
    /\ IsSelector(heap, 1)
    /\ Slots(heap, 1) = {<<2, "selector1">>, <<2, "selector2">>, <<3, "selector2">>}
    /\ Slots(heap, 2) = {<<3, "selector1">>}
    /\ Leaves(heap, 3) = 3

(* ------------------------- where errors are thrown --------------------- *)

\* an append the rules allow: no part of a higher rank was appended, and the kind is
\* repeatable or not yet in the history
Legal(kind, history) ==
    /\ Rank(kind) >= HighestRank(history)
    /\ kind \in SingleKinds => \A i \in 1..Len(history) : history[i] # kind

\* what stringify() reads is there: the three strings and three arrays of a
\* Selector, the two operands of a CombinedSelector
Renderable(h, ref) ==
    IF h[ref].cls = "Selector"
    THEN /\ DOMAIN h[ref].parts = Kinds
         /\ \A kind \in RepeatableKinds : DOMAIN h[ref].parts[kind] = 1..Len(h[ref].parts[kind])
    ELSE /\ Operands(h, ref) \subseteq Refs(h)
         /\ ref \notin Below(h, ref)

\* C15: only a part method called on a Selector throws; the builder's methods,
\* combine and stringify() never do.  In every state stringify() can be called on
\* every object and returns a string, and every Selector accepts every append the
\* rules allow: no state disables them.
C15_ErrorsOnlyFromAppends ==
    /\ last.thrown # NoError => IsAppend(last)
    /\ last.op = "stringify" => (last.thrown = NoError /\ last.str = stringify(heap, last.on))
    /\ \A ref \in Refs(heap) :
          /\ Renderable(heap, ref)
          /\ ENABLED call_stringify(ref)
          /\ IsSelector(heap, ref)
                => \A kind \in Kinds, value \in Values :
                      Legal(kind, heap[ref].order)
                         => Method(kind, heap[ref], value).thrown = NoError

C15_Witness ==
    /\ last.op = "stringify"
    /\ last.thrown = NoError
    /\ last.str = "a#a % a#a"
    /\ \E kind \in Kinds : ~Legal(kind, heap[1].order)
    /\ \E kind \in Kinds : Legal(kind, heap[1].order)

(* ----------------------- the two tests of checkOrder ------------------- *)

\* C19: checkOrder tests the rank before the cardinality.  An append throws the
\* duplicate error exactly when its kind is element, id or pseudoElement and is the
\* kind of the most recent part; it throws the order error exactly when its rank is
\* below that of the most recent part, a repeated element or id included; it is
\* accepted otherwise.  Every append has exactly one of the three outcomes.
C19_RankBeforeCardinality ==
    [][IsAppend(last')
          => LET history == heap[last'.on].order
                 kind    == last'.op
                 recent  == IF history = <<>> THEN "" ELSE history[Len(history)]
                 lower   == Rank(kind) < LastRank(history)
                 twice   == kind \in SingleKinds /\ kind = recent
             IN  /\ last'.thrown \in {NoError, OrderError, DuplicateError}
                 /\ last'.thrown = OrderError <=> lower
                 /\ last'.thrown = DuplicateError <=> twice
                 /\ last'.thrown = NoError <=> (~lower /\ ~twice)
                 /\ ~(lower /\ twice)
                 /\ (last'.thrown = NoError) <=> (last'.ret = last'.on)
                 /\ (last'.thrown = NoError) <=> (heap'[last'.on].order = Append(history, kind))
                 /\ (last'.thrown # NoError) <=> (heap' = heap)]_vars

C19_Witness ==
    /\ IsAppend(last)
    /\ last.op = "id"
    /\ last.thrown = OrderError
    /\ heap[last.on].order = <<"id", "class", "class">>

(***************************************************************************)
(* task/07-yield-tasks.js: mergeSortedSequences.                           *)
(*                                                                         *)
(* `merge` is the generator object: its arguments source1 and source2, its *)
(* locals it1, it2, val1, val2, the statement it stands at (pc) and, for   *)
(* the properties, the values it yielded and the it.next() calls it made.  *)
(* A source is a sequence of numbers, `items`, followed when `endless` by  *)
(* the numbers after its last item, one by one, for ever.  An iterator is  *)
(* the number of values it handed out.  A step runs the generator from one *)
(* statement to the next; a step from a yield is the consumer's next().    *)
(***************************************************************************)

\* the i-th value of a source
At(source, i) ==
    IF i <= Len(source.items) THEN source.items[i]
    ELSE (IF source.items = <<>> THEN 0 ELSE source.items[Len(source.items)])
            + (i - Len(source.items))

\* it.next() on the iterator of a source that handed out `it` values: the IteratorResult
next(source, it) ==
    IF ~source.endless /\ it >= Len(source.items)
    THEN [done |-> TRUE, value |-> "undefined"]
    ELSE [done |-> FALSE, value |-> At(source, it + 1)]

\* the non-decreasing sequences of numbers a source is written out with
Sorted(s) == \A i \in 1..(Len(s) - 1) : s[i] <= s[i + 1]

Items == {s \in UNION {[1..n -> 1..MaxValue] : n \in 0..MaxLen} : Sorted(s)}

Sources == [items : Items, endless : BOOLEAN]

\* mergeSortedSequences(source1, source2) called: the generator object, not yet run
InitMerge ==
    /\ heap = <<>>
    /\ appended = <<>>
    /\ last = NoCall
    /\ depth = NotCalled
    /\ breadth = NotCalled
    /\ \E source1 \in Sources, source2 \in Sources :
          merge = [pc |-> "start", source1 |-> source1, source2 |-> source2,
                   it1 |-> 0, it2 |-> 0,
                   val1 |-> [done |-> FALSE, value |-> "undefined"],
                   val2 |-> [done |-> FALSE, value |-> "undefined"],
                   yielded |-> <<>>, calls1 |-> 0, calls2 |-> 0]

\* a step that calls next() on both iterators where the code calls it1.next()
Pull1_both(m, pc) ==
    LET r == next(m.source1, m.it1)
        q == next(m.source2, m.it2)
    IN  [m EXCEPT !.val1 = r,
                  !.it1 = IF r.done THEN @ ELSE @ + 1,
                  !.calls1 = @ + 1,
                  !.val2 = q,
                  !.it2 = IF q.done THEN @ ELSE @ + 1,
                  !.calls2 = @ + 1,
                  !.pc = pc]

\* val1 = it1.next()
Pull1(m, pc) ==
    LET r == next(m.source1, m.it1)
    IN  [m EXCEPT !.val1 = r,
                  !.it1 = IF r.done THEN @ ELSE @ + 1,
                  !.calls1 = @ + 1,
                  !.pc = pc]

\* val2 = it2.next()
Pull2(m, pc) ==
    LET r == next(m.source2, m.it2)
    IN  [m EXCEPT !.val2 = r,
                  !.it2 = IF r.done THEN @ ELSE @ + 1,
                  !.calls2 = @ + 1,
                  !.pc = pc]

\* the comparison with >= for <=
takeFirst_reversed(val1, val2) == val1.value >= val2.value

\* `val1.value <= val2.value`
takeFirst(val1, val2) == val1.value <= val2.value

\* the consumer goes on calling next(): to the end of finite sources, and for
\* MaxYield values when a source is endless
Consuming ==
    \/ ~merge.source1.endless /\ ~merge.source2.endless
    \/ Len(merge.yielded) < MaxYield

\* the first next(): the two iterators are made
merge_start ==
    /\ merge.pc = "start"
    /\ merge' = [merge EXCEPT !.pc = "first1"]
    /\ UNCHANGED selectors
    /\ UNCHANGED <<depth, breadth>>

\* let val1 = it1.next()
merge_first1 ==
    /\ merge.pc = "first1"
    /\ merge' = Pull1(merge, "first2")
    /\ UNCHANGED selectors
    /\ UNCHANGED <<depth, breadth>>

\* let val2 = it2.next()
merge_first2 ==
    /\ merge.pc = "first2"
    /\ merge' = Pull2(merge, "while")
    /\ UNCHANGED selectors
    /\ UNCHANGED <<depth, breadth>>

\* while (!val1.done || !val2.done) is false: the generator returns
merge_return ==
    /\ merge.pc = "while"
    /\ ~(~merge.val1.done \/ ~merge.val2.done)
    /\ merge' = [merge EXCEPT !.pc = "done"]
    /\ UNCHANGED selectors
    /\ UNCHANGED <<depth, breadth>>

\* if (val1.done) yield val2.value
merge_yield_rest2 ==
    /\ merge.pc = "while"
    /\ ~merge.val1.done \/ ~merge.val2.done
    /\ merge.val1.done
    /\ merge' = [merge EXCEPT !.yielded = Append(@, merge.val2.value), !.pc = "yielded2"]
    /\ UNCHANGED selectors
    /\ UNCHANGED <<depth, breadth>>

\* else if (val2.done) yield val1.value
merge_yield_rest1 ==
    /\ merge.pc = "while"
    /\ ~merge.val1.done \/ ~merge.val2.done
    /\ ~merge.val1.done
    /\ merge.val2.done
    /\ merge' = [merge EXCEPT !.yielded = Append(@, merge.val1.value), !.pc = "yielded1"]
    /\ UNCHANGED selectors
    /\ UNCHANGED <<depth, breadth>>

\* else if (val1.value <= val2.value) yield val1.value
merge_yield1 ==
    /\ merge.pc = "while"
    /\ ~merge.val1.done
    /\ ~merge.val2.done
    /\ takeFirst(merge.val1, merge.val2)
    /\ merge' = [merge EXCEPT !.yielded = Append(@, merge.val1.value), !.pc = "yielded1"]
    /\ UNCHANGED selectors
    /\ UNCHANGED <<depth, breadth>>

\* else yield val2.value
merge_yield2 ==
    /\ merge.pc = "while"
    /\ ~merge.val1.done
    /\ ~merge.val2.done
    /\ ~takeFirst(merge.val1, merge.val2)
    /\ merge' = [merge EXCEPT !.yielded = Append(@, merge.val2.value), !.pc = "yielded2"]
    /\ UNCHANGED selectors
    /\ UNCHANGED <<depth, breadth>>

\* the next next(), after yield val1.value: val1 = it1.next()
merge_resume1 ==
    /\ merge.pc = "yielded1"
    /\ Consuming
    /\ merge' = Pull1(merge, "while")
    /\ UNCHANGED selectors
    /\ UNCHANGED <<depth, breadth>>

\* the next next(), after yield val2.value: val2 = it2.next()
merge_resume2 ==
    /\ merge.pc = "yielded2"
    /\ Consuming
    /\ merge' = Pull2(merge, "while")
    /\ UNCHANGED selectors
    /\ UNCHANGED <<depth, breadth>>

NextMerge ==
    \/ merge_start
    \/ merge_first1
    \/ merge_first2
    \/ merge_return
    \/ merge_yield_rest2
    \/ merge_yield_rest1
    \/ merge_yield1
    \/ merge_yield2
    \/ merge_resume1
    \/ merge_resume2

\* the consumer is a loop that calls next() again whenever a value came back
SpecMerge == InitMerge /\ [][NextMerge]_vars /\ WF_vars(NextMerge)

(* ------------------------ mergeSortedSequences ------------------------- *)

\* how often v occurs in s
Count(s, v) == Cardinality({i \in 1..Len(s) : s[i] = v})

\* the first n values of a source
Prefix(source, n) == [i \in 1..n |-> At(source, i)]

\* s with v put in before the first greater number
RECURSIVE Insert(_, _)
Insert(s, v) ==
    IF s = <<>> THEN <<v>>
    ELSE IF v < Head(s) THEN <<v>> \o s
    ELSE <<Head(s)>> \o Insert(Tail(s), v)

\* the numbers of s in non-decreasing order
RECURSIVE Ascending(_)
Ascending(s) == IF s = <<>> THEN <<>> ELSE Insert(Ascending(Tail(s)), Head(s))

Finite == ~merge.source1.endless /\ ~merge.source2.endless

\* what was yielded so far is non-decreasing and is, number by number, what a prefix
\* of source1 and a prefix of source2 hold together; at the return it is all of both
MergedSoFar ==
    /\ Sorted(merge.yielded)
    /\ \E i \in 0..merge.it1, j \in 0..merge.it2 :
          /\ Len(merge.yielded) = i + j
          /\ \A v \in 0..(MaxValue + MaxYield + 1) :
                Count(merge.yielded, v)
                   = Count(Prefix(merge.source1, i), v) + Count(Prefix(merge.source2, j), v)
    /\ merge.val1.done /\ merge.pc = "while"
          => /\ merge.it1 = Len(merge.source1.items)
             /\ merge.val2.done \/ merge.val2.value = At(merge.source2, merge.it2)
    /\ merge.val2.done /\ merge.pc = "while"
          => /\ merge.it2 = Len(merge.source2.items)
             /\ merge.val1.done \/ merge.val1.value = At(merge.source1, merge.it1)
    /\ merge.pc = "done"
          => /\ Finite
             /\ Len(merge.yielded) = Len(merge.source1.items) + Len(merge.source2.items)
             /\ merge.yielded = Ascending(merge.source1.items \o merge.source2.items)

\* C16: of two finite non-decreasing sequences mergeSortedSequences yields a
\* non-decreasing sequence that holds every number as often as the two inputs hold it
\* together, and nothing else, and then returns; once one source is at its end the
\* rest of the other is yielded as it stands.
C16_MergeIsSortedPermutation ==
    /\ []MergedSoFar
    /\ (merge.pc = "start" /\ Finite) ~> (merge.pc = "done")

C16_Witness ==
    /\ merge.pc = "done"
    /\ merge.source1.items = <<2, 3>>
    /\ merge.source2.items = <<1, 2>>
    /\ merge.yielded = <<1, 2, 2, 3>>

\* the it.next() calls made so far
Calls(m) == m.calls1 + m.calls2

\* C20: mergeSortedSequences is lazy.  It calls next() once on each source before
\* its first yield, and after a yield once more, on the source whose value it just
\* yielded, when it is resumed: at a yield it has made one call more than it has
\* yielded values, and never more than two more.  Of endless sources the consumer
\* gets every value it asks for, the n-th after n + 1 calls.
C20_MergeIsLazy ==
    /\ [][/\ Calls(merge') <= Len(merge'.yielded) + 2
          /\ merge'.it1 <= merge'.calls1 /\ merge'.it2 <= merge'.calls2
          /\ Len(merge'.yielded) = Len(merge.yielded) + 1
                => /\ merge'.calls1 = merge.calls1 /\ merge'.calls2 = merge.calls2
                   /\ Calls(merge') = Len(merge'.yielded) + 1
                   /\ Len(merge'.yielded) = 1 => (merge'.calls1 = 1 /\ merge'.calls2 = 1)
          /\ merge.pc = "yielded1"
                => (merge'.calls1 = merge.calls1 + 1 /\ merge'.calls2 = merge.calls2)
          /\ merge.pc = "yielded2"
                => (merge'.calls2 = merge.calls2 + 1 /\ merge'.calls1 = merge.calls1)]_vars
    /\ (merge.pc = "start" /\ merge.source1.endless /\ merge.source2.endless)
          ~> (Len(merge.yielded) = MaxYield /\ Calls(merge) = MaxYield + 1)

C20_Witness ==
    /\ merge.source1.endless
    /\ merge.source2.endless
    /\ merge.source1.items = <<1, 3>>
    /\ merge.source2.items = <<2>>
    /\ merge.yielded = <<1, 2, 3, 3>>
    /\ merge.calls1 = 3
    /\ merge.calls2 = 2
    /\ merge.pc = "yielded2"

(***************************************************************************)
(* task/07-yield-tasks.js: depthTraversalTree and breadthTraversalTree.    *)
(*                                                                         *)
(* A tree is its nodes 1..n, node 1 the root, and for every node the array *)
(* `children`; a node of `absent` has no property `children` at all, which *)
(* a leaf may or may not have.  `depth` and `breadth` are the generator    *)
(* objects: the argument, the locals stack or queue, node and the loop     *)
(* index i, the statement they stand at (pc) and, for the properties, the  *)
(* nodes they yielded.  Arrays are sequences, so the index i of the code   *)
(* is i - 1 here.                                                          *)
(***************************************************************************)

MaxNodes == 4

\* the arrangements of a set of nodes in an array
Orders(S) ==
    {s \in [1..Cardinality(S) -> S] : \A i, j \in 1..Cardinality(S) : s[i] = s[j] => i = j}

\* the nodes of S in the order that `rank` gives them
Ordered(S, rank) ==
    CHOOSE s \in Orders(S) : \A i, j \in 1..Len(s) : i < j => rank[s[i]] < rank[s[j]]

\* the trees of n nodes: every node but the root is the child of an earlier
\* node, and the children of a node stand in any order
TreesOf(n) ==
    LET parents == {q \in [2..n -> 1..n] : \A k \in 2..n : q[k] < k}
        ranks == {r \in [2..n -> 2..n] : \A j, k \in 2..n : r[j] = r[k] => j = k}
    IN  {[n |-> n,
          children |-> [k \in 1..n |-> Ordered({c \in 2..n : q[c] = k}, r)],
          absent |-> a] :
            q \in parents, r \in ranks, a \in SUBSET (1..n)}

Trees ==
    {t \in UNION {TreesOf(n) : n \in 1..MaxNodes} :
        \A k \in t.absent : t.children[k] = <<>>}

\* the root of a tree
root(t) == 1

\* `if (node.children)`: an array, empty or not, is truthy; undefined is not
hasChildren(t, node) == node \notin t.absent

\* node.children
children(t, node) == t.children[node]

\* stack.pop() taking the first element, as shift() does
pop_first(stack) == [node |-> Head(stack), stack |-> Tail(stack)]

\* queue.shift() taking the last element, as pop() does
shift_last(queue) ==
    [node |-> queue[Len(queue)], queue |-> SubSeq(queue, 1, Len(queue) - 1)]

\* stack.pop(): the last element, and the array without it
pop(stack) ==
    [node |-> stack[Len(stack)], stack |-> SubSeq(stack, 1, Len(stack) - 1)]

\* queue.shift(): the first element, and the array without it
shift(queue) == [node |-> Head(queue), queue |-> Tail(queue)]

\* array.push(x)
push(array, x) == Append(array, x)

\* depthTraversalTree(root) called: the generator object, not yet run
InitDepth ==
    /\ heap = <<>>
    /\ appended = <<>>
    /\ last = NoCall
    /\ merge = NotCalled
    /\ breadth = NotCalled
    /\ \E t \in Trees :
          depth = [pc |-> "start", tree |-> t, stack |-> <<>>, node |-> 0,
                   i |-> 0, yielded |-> <<>>]

\* the first next(): const stack = [root]
depth_start ==
    /\ depth.pc = "start"
    /\ depth' = [depth EXCEPT !.stack = <<root(depth.tree)>>, !.pc = "while"]
    /\ UNCHANGED selectors
    /\ UNCHANGED <<merge, breadth>>

\* stack.length > 0 is false: the generator returns
depth_return ==
    /\ depth.pc = "while"
    /\ ~(Len(depth.stack) > 0)
    /\ depth' = [depth EXCEPT !.pc = "done"]
    /\ UNCHANGED selectors
    /\ UNCHANGED <<merge, breadth>>

\* const node = stack.pop(); yield node
depth_yield ==
    /\ depth.pc = "while"
    /\ Len(depth.stack) > 0
    /\ LET r == pop(depth.stack)
       IN  depth' = [depth EXCEPT !.node = r.node,
                                  !.stack = r.stack,
                                  !.yielded = Append(@, r.node),
                                  !.pc = "yielded"]
    /\ UNCHANGED selectors
    /\ UNCHANGED <<merge, breadth>>

\* the next next(): node.children is there, let i = node.children.length - 1
depth_children ==
    /\ depth.pc = "yielded"
    /\ hasChildren(depth.tree, depth.node)
    /\ depth' = [depth EXCEPT !.i = Len(children(depth.tree, depth.node)),
                              !.pc = "for"]
    /\ UNCHANGED selectors
    /\ UNCHANGED <<merge, breadth>>

\* the next next(): node.children is undefined
depth_no_children ==
    /\ depth.pc = "yielded"
    /\ ~hasChildren(depth.tree, depth.node)
    /\ depth' = [depth EXCEPT !.pc = "while"]
    /\ UNCHANGED selectors
    /\ UNCHANGED <<merge, breadth>>

\* i >= 0: stack.push(node.children[i]); i--
depth_push ==
    /\ depth.pc = "for"
    /\ depth.i >= 1
    /\ depth' = [depth EXCEPT
                   !.stack = push(@, children(depth.tree, depth.node)[depth.i]),
                   !.i = @ - 1]
    /\ UNCHANGED selectors
    /\ UNCHANGED <<merge, breadth>>

\* i >= 0 is false: back to the while
depth_pushed ==
    /\ depth.pc = "for"
    /\ ~(depth.i >= 1)
    /\ depth' = [depth EXCEPT !.pc = "while"]
    /\ UNCHANGED selectors
    /\ UNCHANGED <<merge, breadth>>

NextDepth ==
    \/ depth_start
    \/ depth_return
    \/ depth_yield
    \/ depth_children
    \/ depth_no_children
    \/ depth_push
    \/ depth_pushed

\* the consumer is a loop that calls next() again whenever a node came back
SpecDepth == InitDepth /\ [][NextDepth]_vars /\ WF_vars(NextDepth)

\* breadthTraversalTree(root) called: the generator object, not yet run
InitBreadth ==
    /\ heap = <<>>
    /\ appended = <<>>
    /\ last = NoCall
    /\ merge = NotCalled
    /\ depth = NotCalled
    /\ \E t \in Trees :
          breadth = [pc |-> "start", tree |-> t, queue |-> <<>>, node |-> 0,
                     i |-> 0, yielded |-> <<>>]

\* the first next(): const queue = [root]
breadth_start ==
    /\ breadth.pc = "start"
    /\ breadth' = [breadth EXCEPT !.queue = <<root(breadth.tree)>>, !.pc = "while"]
    /\ UNCHANGED selectors
    /\ UNCHANGED <<merge, depth>>

\* queue.length > 0 is false: the generator returns
breadth_return ==
    /\ breadth.pc = "while"
    /\ ~(Len(breadth.queue) > 0)
    /\ breadth' = [breadth EXCEPT !.pc = "done"]
    /\ UNCHANGED selectors
    /\ UNCHANGED <<merge, depth>>

\* const node = queue.shift(); yield node
breadth_yield ==
    /\ breadth.pc = "while"
    /\ Len(breadth.queue) > 0
    /\ LET r == shift(breadth.queue)
       IN  breadth' = [breadth EXCEPT !.node = r.node,
                                      !.queue = r.queue,
                                      !.yielded = Append(@, r.node),
                                      !.pc = "yielded"]
    /\ UNCHANGED selectors
    /\ UNCHANGED <<merge, depth>>

\* the next next(): node.children is there, the for...of starts at its first element
breadth_children ==
    /\ breadth.pc = "yielded"
    /\ hasChildren(breadth.tree, breadth.node)
    /\ breadth' = [breadth EXCEPT !.i = 1, !.pc = "for"]
    /\ UNCHANGED selectors
    /\ UNCHANGED <<merge, depth>>

\* the next next(): node.children is undefined
breadth_no_children ==
    /\ breadth.pc = "yielded"
    /\ ~hasChildren(breadth.tree, breadth.node)
    /\ breadth' = [breadth EXCEPT !.pc = "while"]
    /\ UNCHANGED selectors
    /\ UNCHANGED <<merge, depth>>

\* the for...of has a next child: queue.push(child)
breadth_push ==
    /\ breadth.pc = "for"
    /\ breadth.i <= Len(children(breadth.tree, breadth.node))
    /\ breadth' = [breadth EXCEPT
                     !.queue = push(@, children(breadth.tree, breadth.node)[breadth.i]),
                     !.i = @ + 1]
    /\ UNCHANGED selectors
    /\ UNCHANGED <<merge, depth>>

\* the for...of is through: back to the while
breadth_pushed ==
    /\ breadth.pc = "for"
    /\ ~(breadth.i <= Len(children(breadth.tree, breadth.node)))
    /\ breadth' = [breadth EXCEPT !.pc = "while"]
    /\ UNCHANGED selectors
    /\ UNCHANGED <<merge, depth>>

NextBreadth ==
    \/ breadth_start
    \/ breadth_return
    \/ breadth_yield
    \/ breadth_children
    \/ breadth_no_children
    \/ breadth_push
    \/ breadth_pushed

\* the consumer is a loop that calls next() again whenever a node came back
SpecBreadth == InitBreadth /\ [][NextBreadth]_vars /\ WF_vars(NextBreadth)

(* ------------------ depthTraversalTree, breadthTraversalTree ----------- *)

\* where x stands in s
Position(s, x) == CHOOSE i \in 1..Len(s) : s[i] = x

\* x stands in s
Has(s, x) == \E i \in 1..Len(s) : s[i] = x

\* no element of s twice
NoRepeat(s) == \A i, j \in 1..Len(s) : s[i] = s[j] => i = j

\* s holds every node of the tree, once
EveryNodeOnce(t, s) ==
    /\ Len(s) = t.n
    /\ \A k \in 1..t.n : Has(s, k)
    /\ NoRepeat(s)

\* c is a child of k
ChildOf(t, c, k) == Has(t.children[k], c)

\* the parent of a node that is not the root
Parent(t, c) == CHOOSE k \in 1..t.n : ChildOf(t, c, k)

\* how far below the root a node is
RECURSIVE Level(_, _)
Level(t, k) == IF k = root(t) THEN 0 ELSE 1 + Level(t, Parent(t, k))

\* the nodes of the subtree of k, k with them
RECURSIVE Subtree(_, _)
Subtree(t, k) ==
    {k} \cup UNION {Subtree(t, t.children[k][i]) : i \in 1..Len(t.children[k])}

\* s, which holds every node once, is the depth-first pre-order of the tree
PreOrder(t, s) ==
    /\ \A a \in 1..t.n : \A b \in Subtree(t, a) \ {a} : Position(s, a) < Position(s, b)
    /\ \A k \in 1..t.n : \A i, j \in 1..Len(t.children[k]) :
          i < j => \A b \in Subtree(t, t.children[k][i]) :
                      Position(s, b) < Position(s, t.children[k][j])

\* s, which holds every node once, is the breadth-first order of the tree
LevelOrder(t, s) ==
    /\ \A a, b \in 1..t.n : Level(t, a) < Level(t, b) => Position(s, a) < Position(s, b)
    /\ \A a, b \in 2..t.n :
          /\ Level(t, a) = Level(t, b)
          /\ \/ Position(s, Parent(t, a)) < Position(s, Parent(t, b))
             \/ /\ Parent(t, a) = Parent(t, b)
                /\ Position(t.children[Parent(t, a)], a)
                      < Position(t.children[Parent(t, a)], b)
          => Position(s, a) < Position(s, b)

\* C17: for every finite tree depthTraversalTree yields no node twice, and
\* when it returns it has yielded every node once in depth-first pre-order (a
\* node before its descendants, the whole subtree of a child before the next
\* sibling, children left to right) and the stack is empty; consumed by a
\* loop it does return
C17_DepthFirstPreOrder ==
    /\ [](NoRepeat(depth.yielded))
    /\ [](depth.pc = "done" =>
            /\ depth.stack = <<>>
            /\ EveryNodeOnce(depth.tree, depth.yielded)
            /\ PreOrder(depth.tree, depth.yielded))
    /\ (depth.pc = "start") ~> (depth.pc = "done")

C17_Witness ==
    /\ depth.pc = "done"
    /\ depth.tree.n = 4
    /\ depth.tree.children = <<(<<3, 2>>), (<<>>), (<<4>>), (<<>>)>>
    /\ depth.tree.absent = {2}
    /\ depth.yielded = <<1, 3, 4, 2>>

\* C18: for every finite tree breadthTraversalTree yields no node twice, and
\* when it returns it has yielded every node once in breadth-first order (the
\* nodes of depth d before those of depth d+1, nodes of one depth in the order
\* of their parents and of the children arrays) and the queue is empty;
\* consumed by a loop it does return
C18_BreadthFirstLevelOrder ==
    /\ [](NoRepeat(breadth.yielded))
    /\ [](breadth.pc = "done" =>
            /\ breadth.queue = <<>>
            /\ EveryNodeOnce(breadth.tree, breadth.yielded)
            /\ LevelOrder(breadth.tree, breadth.yielded))
    /\ (breadth.pc = "start") ~> (breadth.pc = "done")

C18_Witness ==
    /\ breadth.pc = "done"
    /\ breadth.tree.n = 4
    /\ breadth.tree.children = <<(<<3, 2>>), (<<>>), (<<4>>), (<<>>)>>
    /\ breadth.tree.absent = {2}
    /\ breadth.yielded = <<1, 3, 2, 4>>

====
